---- MODULE Spec2Model ----
(***************************************************************************)
(* personal-book-review: the Express handlers of index.js, the Open        *)
(* Library lookup getBookISBN, and the books table of README.md.           *)
(*                                                                         *)
(* Strings are sequences of one-character strings.  An optional value is   *)
(* a sequence of length at most one: <<>> is undefined / null / SQL NULL,  *)
(* <<v>> is the value v.                                                   *)
(***************************************************************************)
EXTENDS Integers, Sequences, FiniteSets, TLC

VARIABLES
    store,      \* the rows of table books (a set of records, id is the key)
    nextId,     \* the next value of the SERIAL sequence behind books.id
    created,    \* history: every id ever given to an inserted row
    books,      \* the module-level `let books`: [owner, list]
    req         \* per request slot: the handler's position and locals

vars == <<store, nextId, created, books, req>>

-----------------------------------------------------------------------------
(* Bounds of the model *)

MaxId == 2          \* the sequence hands out ids 1..MaxId
MaxRows == 3        \* rows of a table that is only listed

(* Program constants *)

ISBN13Len == 13     \* number.length === 13
VarcharLen == 255   \* title VARCHAR(255), author VARCHAR(255)
IsbnLen == 20       \* isbn VARCHAR(20)
RatingMin == 1      \* CHECK (rating >= 1 ...
RatingMax == 10     \* ... AND rating <= 10)

-----------------------------------------------------------------------------
(* Optional values *)

Null == <<>>
Some(v) == <<v>>
IsNull(o) == o = <<>>
Val(o) == o[1]

(* The requests of a run: slot names *)
AllReqs == {"r1", "r2"}

Fields == {"title", "author", "rating", "notes", "date_read"}

-----------------------------------------------------------------------------
(* Text conversions of the store (PostgreSQL input functions) *)

Digits == {"0", "1", "2", "3", "4", "5", "6", "7", "8", "9"}

DigitVal(c) ==
    CASE c = "0" -> 0 [] c = "1" -> 1 [] c = "2" -> 2 [] c = "3" -> 3
      [] c = "4" -> 4 [] c = "5" -> 5 [] c = "6" -> 6 [] c = "7" -> 7
      [] c = "8" -> 8 [] c = "9" -> 9

IsDigits(s) == Len(s) > 0 /\ \A i \in 1..Len(s) : s[i] \in Digits

RECURSIVE ParseNat(_)
ParseNat(s) ==
    IF Len(s) = 0 THEN 0
    ELSE 10 * ParseNat(SubSeq(s, 1, Len(s) - 1)) + DigitVal(s[Len(s)])

\* rating INTEGER: the text parameter is read as an integer; anything that is
\* not a run of digits is rejected (invalid input syntax for type integer)
IntegerIn(s) == IF IsDigits(s) THEN Some(ParseNat(s)) ELSE Null

\* date_read DATE: "YYYY-MM-DD"; the value is kept as the number yyyymmdd,
\* which orders dates as the calendar does
IsDateText(s) ==
    /\ Len(s) = 10
    /\ s[5] = "-" /\ s[8] = "-"
    /\ \A i \in {1, 2, 3, 4, 6, 7, 9, 10} : s[i] \in Digits
    /\ ParseNat(SubSeq(s, 6, 7)) \in 1..12
    /\ ParseNat(SubSeq(s, 9, 10)) \in 1..31

DateIn(s) ==
    IF IsDateText(s)
    THEN Some(ParseNat(SubSeq(s, 1, 4)) * 10000 + ParseNat(SubSeq(s, 6, 7)) * 100
              + ParseNat(SubSeq(s, 9, 10)))
    ELSE Null

-----------------------------------------------------------------------------
(* getBookISBN: the Open Library lookup *)

\* What axios.get produced: kind "error" is a rejected request, "malformed" a
\* body without the docs list, "ok" a body whose docs list is `docs`.  A doc
\* has an optional isbn list and an optional lending_identifier_s string.
Return(v) == [type |-> "return", val |-> v, log |-> {}]
Throw == [type |-> "throw", val |-> Null, log |-> {}]

\* Array.prototype.find(number => number.length === 13)
Find13_first(list) == IF Len(list) = 0 THEN Null ELSE Some(list[1])

Find13(list) ==
    LET hits == {i \in 1..Len(list) : Len(list[i]) = ISBN13Len}
    IN  IF hits = {} THEN Null
        ELSE Some(list[CHOOSE i \in hits : \A j \in hits : i <= j])

\* String.prototype.includes
Includes(s, sub) ==
    \E i \in 1..(Len(s) - Len(sub) + 1) : SubSeq(s, i, i + Len(sub) - 1) = sub

\* String.prototype.split on a one-character separator
RECURSIVE Split(_, _)
Split(s, sep) ==
    LET cuts == {i \in 1..Len(s) : s[i] = sep}
    IN  IF cuts = {} THEN <<s>>
        ELSE LET c == CHOOSE i \in cuts : \A j \in cuts : i <= j
             IN  <<SubSeq(s, 1, c - 1)>> \o Split(SubSeq(s, c + 1, Len(s)), sep)

IsbnMarker == <<"i", "s", "b", "n", "_">>

\* the body of the try block
LookupTry(response) ==
    IF response.kind = "error" THEN Throw
    ELSE IF response.kind = "malformed" THEN Throw
    ELSE IF Len(response.docs) = 0 THEN Return(Null)
    ELSE LET bookData == response.docs[1]
         IN  IF ~IsNull(bookData.isbn) /\ Len(Val(bookData.isbn)) > 0
             THEN LET isbn13 == Find13(Val(bookData.isbn))
                  IN  Return(IF ~IsNull(isbn13) THEN isbn13
                             ELSE Some(Val(bookData.isbn)[1]))
             ELSE IF /\ ~IsNull(bookData.lending)
                     /\ Len(Val(bookData.lending)) > 0
                     /\ Includes(Val(bookData.lending), IsbnMarker)
             THEN Return(Some(Split(Val(bookData.lending), "_")[2]))
             ELSE Return(Null)

\* try { ... } catch (error) { console.error("Fetch error:", error); return null }
getBookISBN_nocatch(response) == LookupTry(response)

getBookISBN(response) ==
    LET try == LookupTry(response)
    IN  IF try.type = "throw"
        THEN [type |-> "return", val |-> Null, log |-> {"Fetch error:"}]
        ELSE try

\* JavaScript truthiness of an optional string: undefined, null and "" are falsy
Truthy(o) == ~IsNull(o) /\ Len(Val(o)) > 0

-----------------------------------------------------------------------------
(* The books table (README.md, CREATE TABLE books) *)

\* The five form values as the columns they are written to.  syntax: the text
\* parameters are readable as their column types; constraints: NOT NULL, the
\* VARCHAR lengths and the CHECK on rating hold.  A NULL rating passes the CHECK.
RatingCheck(rating) == IsNull(rating) \/ Val(rating) \in RatingMin..RatingMax

Columns(body) ==
    LET rating == IF IsNull(body.rating) THEN Null ELSE IntegerIn(Val(body.rating))
        date   == IF IsNull(body.date_read) THEN Null ELSE DateIn(Val(body.date_read))
    IN  [ syntax |-> /\ (IsNull(body.rating) \/ ~IsNull(rating))
                     /\ (IsNull(body.date_read) \/ ~IsNull(date)),
          constraints |->
                /\ ~IsNull(body.title) /\ Len(Val(body.title)) <= VarcharLen
                /\ ~IsNull(body.author) /\ Len(Val(body.author)) <= VarcharLen
                /\ RatingCheck(rating)
                /\ ~IsNull(body.notes)
                /\ ~IsNull(date),
          title |-> body.title, author |-> body.author, rating |-> rating,
          notes |-> body.notes, date_read |-> date ]

Row(id, cols, isbn) ==
    [ id |-> id, title |-> Val(cols.title), author |-> Val(cols.author),
      rating |-> cols.rating, notes |-> Val(cols.notes),
      date_read |-> Val(cols.date_read), isbn |-> isbn ]

Ids(rows) == {b.id : b \in rows}

\* id SERIAL: nextval of the sequence, which never steps back
SerialId_maxplus1(rows, seq) ==
    IF rows = {} THEN 1
    ELSE 1 + CHOOSE i \in Ids(rows) : \A j \in Ids(rows) : j <= i

SerialId(rows, seq) == seq

\* INSERT INTO books (title, author, rating, notes, date_read, isbn) VALUES (...)
\* The sequence is advanced once the row is formed, also when a constraint
\* then rejects it.
Insert(rows, seq, body, isbn, fail) ==
    LET cols == Columns(body)
        id   == SerialId(rows, seq)
    IN  IF fail \/ ~cols.syntax
        THEN [ok |-> FALSE, rows |-> rows, seq |-> seq, new |-> {}]
        ELSE IF ~cols.constraints \/ (~IsNull(isbn) /\ Len(Val(isbn)) > IsbnLen)
        THEN [ok |-> FALSE, rows |-> rows, seq |-> seq + 1, new |-> {}]
        ELSE [ok |-> TRUE, rows |-> rows \cup {Row(id, cols, isbn)},
              seq |-> seq + 1, new |-> {id}]

\* UPDATE books SET title = $1, author = $2, rating = $3, notes = $4,
\* date_read = $5 WHERE id = $6
UpdateRow_all(b, id, cols) == Row(b.id, cols, b.isbn)

UpdateRow(b, id, cols) == IF b.id = id THEN Row(b.id, cols, b.isbn) ELSE b

Update(rows, id, body, fail) ==
    LET cols == Columns(body)
    IN  IF fail \/ ~cols.syntax THEN [ok |-> FALSE, rows |-> rows]
        ELSE IF id \notin Ids(rows) THEN [ok |-> TRUE, rows |-> rows]
        ELSE IF ~cols.constraints THEN [ok |-> FALSE, rows |-> rows]
        ELSE [ok |-> TRUE, rows |-> {UpdateRow(b, id, cols) : b \in rows}]

\* DELETE FROM books WHERE id = $1
Delete(rows, id, fail) ==
    IF fail THEN [ok |-> FALSE, rows |-> rows]
    ELSE [ok |-> TRUE, rows |-> {b \in rows : b.id # id}]

\* SELECT * FROM books WHERE id = $1
SelectById(rows, id, fail) ==
    IF fail THEN [ok |-> FALSE, rows |-> <<>>]
    ELSE IF id \in Ids(rows)
    THEN [ok |-> TRUE, rows |-> <<CHOOSE b \in rows : b.id = id>>]
    ELSE [ok |-> TRUE, rows |-> <<>>]

\* SELECT * FROM books: every row once, in an order the query does not fix
Orders(rows) ==
    {o \in [1..Cardinality(rows) -> rows] : \A b \in rows : \E i \in DOMAIN o : o[i] = b}

-----------------------------------------------------------------------------
(* Sorting of the list page *)

\* Collation of the letters used in titles: letters differ first (primary
\* weight), lower case precedes upper case only between otherwise equal strings
Primary(c) ==
    CASE c \in {"a", "A"} -> 1 [] c \in {"b", "B"} -> 2 [] c \in {"g", "G"} -> 3
      [] OTHER -> 0

Tertiary(c) == IF c \in {"A", "B", "G"} THEN 1 ELSE 0

Sign(n) == IF n < 0 THEN -1 ELSE IF n > 0 THEN 1 ELSE 0

RECURSIVE LexCompare(_, _)
LexCompare(u, v) ==
    IF Len(u) = 0 /\ Len(v) = 0 THEN 0
    ELSE IF Len(u) = 0 THEN -1
    ELSE IF Len(v) = 0 THEN 1
    ELSE IF u[1] # v[1] THEN Sign(u[1] - v[1])
    ELSE LexCompare(Tail(u), Tail(v))

\* String.prototype.localeCompare
LocaleCompare(s, t) ==
    LET p == LexCompare([i \in 1..Len(s) |-> Primary(s[i])],
                        [i \in 1..Len(t) |-> Primary(t[i])])
    IN  IF p # 0 THEN p
        ELSE LexCompare([i \in 1..Len(s) |-> Tertiary(s[i])],
                        [i \in 1..Len(t) |-> Tertiary(t[i])])

\* a rating in arithmetic: null counts as 0
Num(rating) == IF IsNull(rating) THEN 0 ELSE Val(rating)

SortRating == <<"r", "a", "t", "i", "n", "g">>
SortTitle == <<"t", "i", "t", "l", "e">>
SortDate == <<"d", "a", "t", "e">>

\* const currentSort = req.query.sort || 'date'
CurrentSort(param) == IF Truthy(param) THEN Val(param) ELSE SortDate

\* the three comparators handed to Array.prototype.sort
Comparator_ascending(sort, a, b) ==
    IF sort = SortRating THEN Num(a.rating) - Num(b.rating)
    ELSE IF sort = SortTitle THEN LocaleCompare(a.title, b.title)
    ELSE a.date_read - b.date_read

Comparator(sort, a, b) ==
    IF sort = SortRating THEN Num(b.rating) - Num(a.rating)
    ELSE IF sort = SortTitle THEN LocaleCompare(a.title, b.title)
    ELSE b.date_read - a.date_read

\* Array.prototype.sort: a stable sort by the comparator
InsertSorted(sorted, x, sort) ==
    LET later == {i \in 1..Len(sorted) : Comparator(sort, x, sorted[i]) < 0}
        at    == IF later = {} THEN Len(sorted) + 1
                 ELSE CHOOSE i \in later : \A j \in later : i <= j
    IN  SubSeq(sorted, 1, at - 1) \o <<x>> \o SubSeq(sorted, at, Len(sorted))

RECURSIVE SortBooks(_, _)
SortBooks(list, sort) ==
    IF Len(list) = 0 THEN <<>>
    ELSE InsertSorted(SortBooks(SubSeq(list, 1, Len(list) - 1), sort),
                      list[Len(list)], sort)

-----------------------------------------------------------------------------
(* Request handlers.  A handler runs from one await to the next in one step;  *)
(* a query is executed by the store when it is issued (one connection, first  *)
(* come first served) and its result is picked up at the handler's next step. *)

\* A request slot: pc is the await the handler is suspended at; id, body, isbn
\* and rows are its locals; status, text and page are the response (status 0:
\* none sent); log is what it wrote to the console; failed tells that its store
\* call was rejected.
Idle ==
    [ pc |-> "idle", op |-> "", id |-> 0, body |-> Null, isbn |-> Null,
      sort |-> Null, rows |-> <<>>, failed |-> FALSE, status |-> 0, text |-> "",
      page |-> <<>>, log |-> {} ]

Free(r) == req[r].pc \in {"idle", "done"}

\* res.status(status).send(text), res.redirect('/') (302), res.render (200)
Respond(op, status, text, page, failed, log) ==
    [Idle EXCEPT !.pc = "done", !.op = op, !.status = status, !.text = text,
                 !.page = page, !.failed = failed, !.log = log]

\* catch (error) { console.error(error) }: the handler ends, nothing is sent
LogOnly(op, failed, log) ==
    [Idle EXCEPT !.pc = "done", !.op = op, !.failed = failed, !.log = log]

Resolving == {q \in AllReqs : req[q].pc = "awaitISBN"}

\* if (!title || !author || !rating || !notes || !date_read)
AllPresent_four(body) ==
    Truthy(body.title) /\ Truthy(body.author) /\ Truthy(body.notes)
    /\ Truthy(body.date_read)

AllPresent(body) ==
    Truthy(body.title) /\ Truthy(body.author) /\ Truthy(body.rating)
    /\ Truthy(body.notes) /\ Truthy(body.date_read)

\* if (!isbn)
IsbnFound_notnull(isbn) == TRUE

IsbnFound(isbn) == Truthy(isbn)

\* POST /add, up to the call of getBookISBN
PostAdd(r, body, cap) ==
    /\ Free(r)
    /\ nextId + Cardinality(Resolving) <= cap
    /\ req' = [req EXCEPT ![r] =
                 IF ~AllPresent(body)
                 THEN Respond("create", 400, "All fields are required", <<>>, FALSE, {})
                 ELSE [Idle EXCEPT !.pc = "awaitISBN", !.op = "create",
                                   !.body = Some(body)]]
    /\ UNCHANGED <<store, nextId, created, books>>

\* POST /add, from the return of getBookISBN to the INSERT
PostAddResolved(r, response, fail) ==
    /\ req[r].pc = "awaitISBN"
    /\ LET got  == getBookISBN(response)
           body == Val(req[r].body)
       IN  IF got.type = "throw"
           THEN /\ req' = [req EXCEPT ![r] =
                             Respond("create", 500, "Error adding book", <<>>, FALSE,
                                     {"error"})]
                /\ UNCHANGED <<store, nextId, created>>
           ELSE IF ~IsbnFound(got.val)
           THEN /\ req' = [req EXCEPT ![r] =
                             Respond("create", 400, "Could not fetch ISBN", <<>>, FALSE,
                                     got.log \cup {"No ISBN found"})]
                /\ UNCHANGED <<store, nextId, created>>
           ELSE LET ins == Insert(store, nextId, body, got.val, fail)
                IN  /\ store' = ins.rows
                    /\ nextId' = ins.seq
                    /\ created' = created \cup ins.new
                    /\ req' = [req EXCEPT ![r] =
                                 [Idle EXCEPT !.pc = "awaitInsert", !.op = "create",
                                              !.body = req[r].body, !.isbn = got.val,
                                              !.failed = ~ins.ok, !.log = got.log]]
    /\ UNCHANGED books

\* POST /add, after the INSERT: res.redirect('/') or the catch block
PostAddFinish(r) ==
    /\ req[r].pc = "awaitInsert"
    /\ req' = [req EXCEPT ![r] =
                 IF req[r].failed
                 THEN Respond("create", 500, "Error adding book", <<>>, TRUE,
                              req[r].log \cup {"error"})
                 ELSE Respond("create", 302, "/", <<>>, FALSE, req[r].log)]
    /\ UNCHANGED <<store, nextId, created, books>>

\* POST /book/:id, up to the UPDATE
PostBook(r, id, body, fail) ==
    /\ Free(r)
    /\ LET upd == Update(store, id, body, fail)
       IN  /\ store' = upd.rows
           /\ req' = [req EXCEPT ![r] =
                        [Idle EXCEPT !.pc = "awaitUpdate", !.op = "update",
                                     !.id = id, !.failed = ~upd.ok]]
    /\ UNCHANGED <<nextId, created, books>>

PostBookFinish(r) ==
    /\ req[r].pc = "awaitUpdate"
    /\ req' = [req EXCEPT ![r] =
                 IF req[r].failed
                 THEN Respond("update", 500, "Error updating book", <<>>, TRUE, {"error"})
                 ELSE Respond("update", 302, "/", <<>>, FALSE, {})]
    /\ UNCHANGED <<store, nextId, created, books>>

\* POST /book/:id/delete, up to the DELETE
PostDelete(r, id, fail) ==
    /\ Free(r)
    /\ LET del == Delete(store, id, fail)
       IN  /\ store' = del.rows
           /\ req' = [req EXCEPT ![r] =
                        [Idle EXCEPT !.pc = "awaitDelete", !.op = "delete",
                                     !.id = id, !.failed = ~del.ok]]
    /\ UNCHANGED <<nextId, created, books>>

PostDeleteFinish(r) ==
    /\ req[r].pc = "awaitDelete"
    /\ req' = [req EXCEPT ![r] =
                 IF req[r].failed
                 THEN Respond("delete", 500, "Error deleting book", <<>>, TRUE, {"error"})
                 ELSE Respond("delete", 302, "/", <<>>, FALSE, {})]
    /\ UNCHANGED <<store, nextId, created, books>>

\* GET /book/:id, up to the SELECT
GetBook(r, id, fail) ==
    /\ Free(r)
    /\ LET sel == SelectById(store, id, fail)
       IN  req' = [req EXCEPT ![r] =
                     [Idle EXCEPT !.pc = "awaitSelectOne", !.op = "get", !.id = id,
                                  !.rows = sel.rows, !.failed = ~sel.ok]]
    /\ UNCHANGED <<store, nextId, created, books>>

\* GET /book/:id, after the SELECT: the catch block only logs
GetBookFinish(r) ==
    /\ req[r].pc = "awaitSelectOne"
    /\ req' = [req EXCEPT ![r] =
                 IF req[r].failed THEN LogOnly("get", TRUE, {"error"})
                 ELSE IF Len(req[r].rows) > 0
                 THEN Respond("get", 200, "add.ejs", <<req[r].rows[1]>>, FALSE, {})
                 ELSE Respond("get", 404, "Book not found", <<>>, FALSE, {})]
    /\ UNCHANGED <<store, nextId, created, books>>

\* GET /add: the empty form
GetAdd(r) ==
    /\ Free(r)
    /\ req' = [req EXCEPT ![r] = Respond("form", 200, "add.ejs", <<>>, FALSE, {})]
    /\ UNCHANGED <<store, nextId, created, books>>

\* async function getBooks(), after its await: books = response.rows; return books
\* The returned array is the request's own result.  books.owner names the
\* request whose handler still has to sort the array the shared variable
\* refers to ("": none, the array will not change any more).
GetBooksValue_shared(rows, shared) == shared

GetBooksValue(rows, shared) == rows

\* GET /, up to the SELECT inside getBooks
GetRoot(r, sort, order, fail) ==
    /\ Free(r)
    /\ req' = [req EXCEPT ![r] =
                 [Idle EXCEPT !.pc = "awaitSelect", !.op = "list", !.sort = sort,
                              !.rows = IF fail THEN <<>> ELSE order,
                              !.failed = fail]]
    /\ UNCHANGED <<store, nextId, created, books>>

\* getBooks resumes; its promise settles and the handler resumes in a later turn
GetBooksResume(r) ==
    /\ req[r].pc = "awaitSelect"
    /\ IF req[r].failed
       THEN /\ req' = [req EXCEPT ![r].pc = "awaitGetBooks"]
            /\ UNCHANGED books
       ELSE /\ books' = [owner |-> r, list |-> req[r].rows]
            /\ req' = [req EXCEPT ![r] =
                         [req[r] EXCEPT !.pc = "awaitGetBooks",
                                  !.page = GetBooksValue(req[r].rows, books.list)]]
    /\ UNCHANGED <<store, nextId, created>>

\* GET /, after await getBooks(): sort the returned array in place and render
\* it; the catch block only logs
GetRootFinish(r) ==
    /\ req[r].pc = "awaitGetBooks"
    /\ IF req[r].failed
       THEN /\ req' = [req EXCEPT ![r] = LogOnly("list", TRUE, {"error"})]
            /\ UNCHANGED books
       ELSE LET sorted == SortBooks(req[r].page, CurrentSort(req[r].sort))
            IN  /\ req' = [req EXCEPT ![r] =
                             [Idle EXCEPT !.pc = "done", !.op = "list",
                                          !.sort = req[r].sort, !.status = 200,
                                          !.text = "index.ejs", !.page = sorted]]
                /\ books' = IF books.owner = r THEN [owner |-> "", list |-> sorted]
                            ELSE books
    /\ UNCHANGED <<store, nextId, created>>

-----------------------------------------------------------------------------
(* Inputs *)

Str_a == <<"a">>
Str_B == <<"B">>
Str_b == <<"b">>
Str_7 == <<"7">>
Str_3 == <<"3">>
Str_11 == <<"1", "1">>
Str_x == <<"x">>
Date2020 == <<"2", "0", "2", "0", "-", "0", "1", "-", "0", "1">>
Date2023 == <<"2", "0", "2", "3", "-", "0", "5", "-", "0", "5">>
Isbn10 == <<"0", "1", "2", "3", "4", "5", "6", "7", "8", "9">>
Isbn13 == <<"1", "2", "3", "4", "5", "6", "7", "8", "9", "0", "1", "2", "3">>
Lending == IsbnMarker \o <<"9", "7", "8">> \o <<"_">> \o Str_x

Body(t, a, r, n, d) == [title |-> t, author |-> a, rating |-> r, notes |-> n, date_read |-> d]

\* form bodies: every field missing, empty or filled in
Bodies ==
    { Body(t, a, r, n, d) :
        t \in {Null, Some(<<>>), Some(Str_a)},
        a \in {Null, Some(Str_x)},
        r \in {Null, Some(<<>>), Some(Str_7), Some(Str_11)},
        n \in {Null, Some(Str_b)},
        d \in {Null, Some(<<>>), Some(Date2020)} }

FilledIn == Body(Some(Str_a), Some(Str_x), Some(Str_7), Some(Str_b), Some(Date2020))

\* a store call that fails on its own (the connection) does so whatever it carries
BodiesIf(fail) == IF fail THEN {FilledIn} ELSE Bodies

Doc(isbn, lending) == [isbn |-> isbn, lending |-> lending]

Responses ==
    { [kind |-> "error", docs |-> <<>>],
      [kind |-> "malformed", docs |-> <<>>],
      [kind |-> "ok", docs |-> <<>>],
      [kind |-> "ok", docs |-> <<Doc(Some(<<Isbn10, Isbn13>>), Null)>>] }

-----------------------------------------------------------------------------
(* The application after start-up: an empty table, let books = [] *)

Init ==
    /\ store = {}
    /\ nextId = 1
    /\ created = {}
    /\ books = [owner |-> "", list |-> <<>>]
    /\ req = [r \in AllReqs |-> Idle]

\* one request at a time: the record lifecycle
Next ==
    \E r \in {"r1"} :
        \/ \E b \in Bodies : PostAdd(r, b, MaxId)
        \/ \E c \in Responses, f \in BOOLEAN : PostAddResolved(r, c, f)
        \/ PostAddFinish(r)
        \/ \E id \in 1..MaxId, f \in BOOLEAN : \E b \in BodiesIf(f) : PostBook(r, id, b, f)
        \/ PostBookFinish(r)
        \/ \E id \in 1..MaxId, f \in BOOLEAN : PostDelete(r, id, f)
        \/ PostDeleteFinish(r)
        \/ \E id \in 1..MaxId, f \in BOOLEAN : GetBook(r, id, f)
        \/ GetBookFinish(r)
        \/ GetAdd(r)

Spec == Init /\ [][Next]_vars

-----------------------------------------------------------------------------
(* The lookup on its own: one filled-in form, many catalog responses *)

Isbn13b == <<"9", "7", "8", "0", "0", "0", "0", "0", "0", "0", "0", "0", "2">>
Str_978 == <<"9", "7", "8">>
LendingPlain == <<"o", "l", "_", "9">>
LendingInner == Str_x \o <<"_">> \o IsbnMarker \o <<"9">>
LendingBare == IsbnMarker
LendingLong == IsbnMarker \o Isbn13 \o Isbn10

Identifiers == {Isbn10, Isbn13, Isbn13b}

IsbnLists ==
    {<<>>} \cup {<<a>> : a \in Identifiers} \cup {<<a, b>> : a, b \in Identifiers}
    \cup {<<Isbn10, Isbn10, Isbn13>>, <<Isbn10, Isbn13b, Isbn13>>}

Docs ==
    { Doc(i, l) :
        i \in {Null} \cup {Some(list) : list \in IsbnLists},
        l \in {Null, Some(<<>>), Some(Lending), Some(LendingPlain), Some(LendingInner),
               Some(LendingBare), Some(LendingLong)} }

LookupResponses ==
    { [kind |-> "error", docs |-> <<>>],
      [kind |-> "malformed", docs |-> <<>>],
      [kind |-> "ok", docs |-> <<>>] }
    \cup {[kind |-> "ok", docs |-> <<d>>] : d \in Docs}
    \cup { [kind |-> "ok", docs |-> <<d, Doc(Some(<<Isbn13b>>), Some(Lending))>>] :
              d \in {e \in Docs : e.isbn \in {Null, Some(<<>>), Some(<<Isbn10>>)}} }

NextResolve ==
    \E r \in {"r1"} :
        \/ PostAdd(r, FilledIn, MaxId)
        \/ \E c \in LookupResponses, f \in BOOLEAN : PostAddResolved(r, c, f)
        \/ PostAddFinish(r)

SpecResolve == Init /\ [][NextResolve]_vars

-----------------------------------------------------------------------------
(* Two requests in flight: forms that are filled in, a store that answers *)

OtherBody == Body(Some(Str_B), Some(Str_x), Some(Str_3), Some(Str_b), Some(Date2023))

ConcBodies == {FilledIn, OtherBody}

ConcResponses == {[kind |-> "ok", docs |-> <<Doc(Some(<<Isbn13>>), Null)>>]}

\* req.query.sort: absent (by date), or by rating
ConcSorts == {Null, Some(SortRating)}

NextConc ==
    \E r \in AllReqs :
        \/ \E b \in ConcBodies : PostAdd(r, b, MaxId)
        \/ \E c \in ConcResponses : PostAddResolved(r, c, FALSE)
        \/ PostAddFinish(r)
        \/ \E id \in 1..MaxId : PostBook(r, id, OtherBody, FALSE)
        \/ PostBookFinish(r)
        \/ \E id \in 1..MaxId : PostDelete(r, id, FALSE)
        \/ PostDeleteFinish(r)
        \/ \E k \in ConcSorts : \E o \in Orders(store) : GetRoot(r, k, o, FALSE)
        \/ GetBooksResume(r)
        \/ GetRootFinish(r)

SpecConc == Init /\ [][NextConc]_vars

-----------------------------------------------------------------------------
(* Listing a table that is already filled: every sort parameter, every order *)
(* in which the SELECT may return the rows                                   *)

SortFields ==
    [ title : {Str_a, Str_B}, rating : {Null, Some(3), Some(7)},
      date_read : {20200101, 20230505} ]

RowOf(id, f) ==
    [ id |-> id, title |-> f.title, author |-> Str_x, rating |-> f.rating,
      notes |-> Str_b, date_read |-> f.date_read, isbn |-> Some(Isbn13) ]

\* the tables of at most max rows, ids 1..n
Tables(max) ==
    UNION { {{RowOf(i, t[i]) : i \in 1..n} : t \in [1..n -> SortFields]} : n \in 0..max }

SortParams ==
    { Null, Some(<<>>), Some(SortRating), Some(SortTitle), Some(SortDate),
      Some(<<"a", "u", "t", "h", "o", "r">>) }

InitSort ==
    /\ store \in Tables(MaxRows)
    /\ nextId = Cardinality(store) + 1
    /\ created = Ids(store)
    /\ books = [owner |-> "", list |-> <<>>]
    /\ req = [r \in AllReqs |-> Idle]

NextSort ==
    \E r \in {"r1"} :
        \/ \E k \in SortParams, o \in Orders(store) : GetRoot(r, k, o, FALSE)
        \/ GetBooksResume(r)
        \/ GetRootFinish(r)

SpecSort == InitSort /\ [][NextSort]_vars

-----------------------------------------------------------------------------
(* Vocabulary of the properties *)

ValidationError(r) ==
    req[r].pc = "done" /\ req[r].op = "create" /\ req[r].status = 400
    /\ req[r].text = "All fields are required"

ResolutionError(r) ==
    req[r].pc = "done" /\ req[r].op = "create" /\ req[r].status = 400
    /\ req[r].text = "Could not fetch ISBN"

\* a field of the form is missing or empty
MissingOrEmpty(body) == \E f \in Fields : body[f] = Null \/ body[f] = Some(<<>>)

\* decimal text of a number below 10000
DigitChar(n) ==
    CASE n = 0 -> "0" [] n = 1 -> "1" [] n = 2 -> "2" [] n = 3 -> "3" [] n = 4 -> "4"
      [] n = 5 -> "5" [] n = 6 -> "6" [] n = 7 -> "7" [] n = 8 -> "8" [] n = 9 -> "9"

Decimal(n) ==
    IF n < 10 THEN <<DigitChar(n)>>
    ELSE IF n < 100 THEN <<DigitChar(n \div 10), DigitChar(n % 10)>>
    ELSE <<DigitChar(n \div 1000), DigitChar((n \div 100) % 10),
           DigitChar((n \div 10) % 10), DigitChar(n % 10)>>

Pad2(n) == <<DigitChar(n \div 10), DigitChar(n % 10)>>

\* "YYYY-MM-DD" of a stored date
DateText(d) ==
    Decimal(d \div 10000) \o <<"-">> \o Pad2((d \div 100) % 100) \o <<"-">> \o Pad2(d % 100)

\* the stored record carries exactly these form values and this identifier
Carries(b, body, isbn) ==
    /\ b.title = Val(body.title)
    /\ b.author = Val(body.author)
    /\ ~IsNull(b.rating) /\ Decimal(Val(b.rating)) = Val(body.rating)
    /\ b.notes = Val(body.notes)
    /\ DateText(b.date_read) = Val(body.date_read)
    /\ b.isbn = isbn

-----------------------------------------------------------------------------
(* C1: a create request with a missing or empty field is answered 400 "All  *)
(* fields are required" at once: the table and the sequence are untouched    *)
(* and getBookISBN is not called (the handler does not reach that await).    *)
C1_MissingFieldRejected ==
    [][\A r \in AllReqs :
         (/\ Free(r) /\ req'[r].op = "create"
          /\ \E b \in Bodies : MissingOrEmpty(b) /\ PostAdd(r, b, MaxId))
         => /\ ValidationError(r)'
            /\ req'[r].pc # "awaitISBN"
            /\ store' = store /\ nextId' = nextId /\ created' = created]_vars

\* a validation error was answered while the table held a record
C1_Witness ==
    \E r \in AllReqs : ValidationError(r) /\ store # {}

(* C2: when getBookISBN returns absent for a request with all five fields,   *)
(* the answer is 400 "Could not fetch ISBN", the INSERT is never issued and  *)
(* the table and the sequence are unchanged.                                 *)
C2_AbsentIdentifierRejected ==
    [][\A r \in AllReqs :
         req[r].pc = "awaitISBN"
         => \A c \in Responses : \A f \in BOOLEAN :
              (IsNull(getBookISBN(c).val) /\ PostAddResolved(r, c, f))
              => /\ ResolutionError(r)'
                 /\ req'[r].pc # "awaitInsert"
                 /\ store' = store /\ nextId' = nextId /\ created' = created]_vars

C2_Witness ==
    \E r \in AllReqs : ResolutionError(r) /\ store # {}

(* C3 as claimed: every create request with all five fields for which the    *)
(* resolver returns an identifier adds exactly one record carrying the input *)
(* (the store being available).                                              *)
C3_EveryResolvedCreateInserts ==
    [][\A r \in AllReqs : \A c \in Responses :
         (req[r].pc = "awaitISBN" /\ Truthy(getBookISBN(c).val)
          /\ PostAddResolved(r, c, FALSE))
         => \E b \in store' :
               /\ b \notin store
               /\ store' = store \cup {b}
               /\ Carries(b, Val(req[r].body), getBookISBN(c).val)]_vars

(* C3 amended: when the resolver returns an identifier and the store accepts *)
(* the INSERT, exactly one record is added; it carries the five form values  *)
(* and the resolved identifier, its id was never given to a record before,   *)
(* every other record is unchanged and the request is answered 302 to /.     *)
(* When the store rejects the INSERT no record is added and the answer is    *)
(* 500.                                                                      *)
C3_AcceptedCreateInserts ==
    [][\A r \in AllReqs :
         /\ \A c \in Responses : \A f \in BOOLEAN :
              (req[r].pc = "awaitISBN" /\ Truthy(getBookISBN(c).val)
               /\ PostAddResolved(r, c, f))
              => IF req'[r].failed
                 THEN store' = store
                 ELSE \E b \in store' :
                        /\ b \notin store
                        /\ store' = store \cup {b}
                        /\ Carries(b, Val(req[r].body), getBookISBN(c).val)
                        /\ b.id \notin created
                        /\ \A o \in store : o.id # b.id
         /\ (req[r].pc = "awaitInsert" /\ req'[r].pc = "done")
              => /\ store' = store
                 /\ req'[r].status = IF req[r].failed THEN 500 ELSE 302
                 /\ ~req[r].failed => req'[r].text = "/"]_vars

\* a create was answered 302 after an earlier record had been deleted
C3_Witness ==
    \E r \in AllReqs :
        /\ req[r].op = "create" /\ req[r].status = 302
        /\ store # {}
        /\ created \ Ids(store) # {}

(* C6: getBookISBN returns a value or absent for every outcome of the        *)
(* external call and never throws; a rejected or malformed lookup during     *)
(* create is answered 400 "Could not fetch ISBN", never 500.                 *)
C6_LookupFailureIsResolutionError ==
    [][\A r \in AllReqs :
         req[r].pc = "awaitISBN"
         => \A c \in {d \in Responses : d.kind \in {"error", "malformed"}} :
              \A f \in BOOLEAN :
                PostAddResolved(r, c, f)
                => /\ getBookISBN(c).type = "return"
                   /\ ResolutionError(r)'
                   /\ req'[r].status # 500
                   /\ store' = store]_vars

\* a lookup that failed (the catch block logged it) was answered 400
C6_Witness ==
    \E r \in AllReqs : ResolutionError(r) /\ "Fetch error:" \in req[r].log

(* C8 as claimed: every persisted record has an integer rating in 1..10.     *)
C8_RatingInRange ==
    \A b \in store : ~IsNull(b.rating) /\ Val(b.rating) \in 1..10

(* C9: an update of id changes at most title, author, rating, notes and      *)
(* date_read of the record with that id: that record keeps its id and isbn,  *)
(* every other record is unchanged, no record is created or removed, and     *)
(* getBookISBN is not called.                                                *)
C9_UpdateFrame ==
    [][\A r \in AllReqs :
         (Free(r) /\ req'[r].op = "update" /\ req'[r].pc = "awaitUpdate")
         => /\ Ids(store') = Ids(store)
            /\ Cardinality(store') = Cardinality(store)
            /\ \A b \in store : \E u \in store' :
                  /\ u.id = b.id
                  /\ u.isbn = b.isbn
                  /\ (b.id # req'[r].id => u = b)
            /\ nextId' = nextId /\ created' = created
            /\ \A q \in AllReqs : req'[q].pc = "awaitISBN" => req[q].pc = "awaitISBN"]_vars

\* an update changed a record (an empty title can only come from an update)
\* while another record was present
C9_Witness ==
    \E r \in AllReqs :
        /\ req[r].pc = "awaitUpdate" /\ ~req[r].failed
        /\ Cardinality(store) >= 2
        /\ \E b \in store : b.id = req[r].id /\ b.title = <<>>

-----------------------------------------------------------------------------
(* Vocabulary of the list properties *)

\* the list holds every row of the set once
PermutationOf(list, rows) ==
    /\ Len(list) = Cardinality(rows)
    /\ {list[i] : i \in 1..Len(list)} = rows

SeqSet(list) == {list[i] : i \in 1..Len(list)}

\* rating descending; records without a rating come after the rated ones
RatingOrdered(a, b) ==
    IF IsNull(a.rating) THEN IsNull(b.rating)
    ELSE IsNull(b.rating) \/ Val(a.rating) >= Val(b.rating)

OrderedBy(list, param) ==
    \A i, j \in 1..Len(list) :
        i < j =>
          IF param = Some(SortRating) THEN RatingOrdered(list[i], list[j])
          ELSE IF param = Some(SortTitle)
          THEN LocaleCompare(list[i].title, list[j].title) <= 0
          ELSE list[i].date_read >= list[j].date_read

(* C4 as claimed: a request whose store call failed is answered 500 with a   *)
(* generic message, whatever the operation.                                  *)
C4_StoreErrorAnswered500 ==
    \A r \in AllReqs :
        (req[r].pc = "done" /\ req[r].failed)
        => /\ req[r].status = 500
           /\ req[r].text \in {"Error adding book", "Error updating book",
                               "Error deleting book"}

(* C5: for a well-formed catalog response getBookISBN looks at the first     *)
(* result only: with a non-empty isbn list it returns an identifier of       *)
(* length 13 from the list if there is one and the first of the list         *)
(* otherwise; with no or an empty isbn list and a lending identifier that    *)
(* contains isbn_ it returns the second of the segments between _; in every  *)
(* other case, and for an empty result list, it returns absent.              *)
HasMarker(s) ==
    \E i \in 1..(Len(s) - 4) :
        s[i] = "i" /\ s[i + 1] = "s" /\ s[i + 2] = "b" /\ s[i + 3] = "n" /\ s[i + 4] = "_"

SecondSegment(s) ==
    LET under == {i \in 1..Len(s) : s[i] = "_"}
        p     == CHOOSE i \in under : \A j \in under : i <= j
        after == {i \in under : i > p}
        q     == IF after = {} THEN Len(s) + 1
                 ELSE CHOOSE i \in after : \A j \in after : i <= j
    IN  [i \in 1..(q - p - 1) |-> s[p + i]]

Resolves(c, v) ==
    IF Len(c.docs) = 0 THEN IsNull(v)
    ELSE LET d == c.docs[1]
         IN  IF d.isbn # Null /\ d.isbn # Some(<<>>)
             THEN LET list == Val(d.isbn)
                  IN  IF \E i \in 1..Len(list) : Len(list[i]) = 13
                      THEN /\ ~IsNull(v)
                           /\ Len(Val(v)) = 13
                           /\ \E i \in 1..Len(list) : list[i] = Val(v)
                      ELSE v = Some(list[1])
             ELSE IF d.lending # Null /\ HasMarker(Val(d.lending))
             THEN v = Some(SecondSegment(Val(d.lending)))
             ELSE IsNull(v)

C5_ResolvePolicy ==
    [][\A r \in AllReqs :
         req[r].pc = "awaitISBN"
         => \A c \in LookupResponses : \A f \in BOOLEAN :
              (c.kind = "ok" /\ PostAddResolved(r, c, f))
              => IF req'[r].pc = "awaitInsert"
                 THEN Resolves(c, req'[r].isbn)
                 ELSE /\ ResolutionError(r)'
                      /\ Resolves(c, Null) \/ Resolves(c, Some(<<>>))]_vars

\* the lending identifier was used for one record after the 13-character
\* identifier had been preferred for another
C5_Witness ==
    \E r \in AllReqs :
        /\ req[r].pc = "awaitInsert" /\ ~req[r].failed
        /\ req[r].isbn = Some(Str_978)
        /\ \E b \in store : b.isbn = Some(Isbn13)

(* C7: the list page shows every stored record exactly once, ordered by      *)
(* rating descending for sort=rating, by title ascending for sort=title and  *)
(* by date_read descending for sort=date, no sort, or any other value; a     *)
(* list request leaves the table unchanged.                                  *)
C7_ListSorted ==
    [][\A r \in AllReqs :
         (req'[r].op = "list" /\ req'[r] # req[r])
         => /\ store' = store
            /\ (req'[r].pc = "done" /\ ~req[r].failed)
                 => /\ req'[r].status = 200
                    /\ PermutationOf(req'[r].page, store)
                    /\ OrderedBy(req'[r].page, req'[r].sort)]_vars

\* three records were listed by title in the reverse of the order of their ids
C7_Witness ==
    \E r \in AllReqs :
        /\ req[r].pc = "done" /\ req[r].op = "list" /\ req[r].status = 200
        /\ req[r].sort = Some(SortTitle)
        /\ Len(req[r].page) = 3
        /\ req[r].page[1].title = Str_a /\ req[r].page[1].id = 3
        /\ req[r].page[2].title = Str_a /\ req[r].page[2].id = 2
        /\ req[r].page[3].title = Str_B /\ req[r].page[3].id = 1

(* C10: whatever other requests do between a list request's SELECT and its   *)
(* rendering, the page it renders is the rows its own SELECT returned (the   *)
(* table as it was then), ordered by its own sort parameter.                 *)
C10_OwnRowsRendered ==
    [][\A r \in AllReqs :
         /\ (Free(r) /\ req'[r].pc = "awaitSelect" /\ ~req'[r].failed)
              => PermutationOf(req'[r].rows, store)
         /\ (req[r].pc = "awaitSelect" /\ req'[r].pc = "awaitGetBooks")
              => req'[r].rows = req[r].rows
         /\ (req[r].pc = "awaitGetBooks" /\ req'[r].pc = "done" /\ ~req[r].failed)
              => /\ req'[r].status = 200
                 /\ PermutationOf(req'[r].page, SeqSet(req[r].rows))
                 /\ OrderedBy(req'[r].page, req[r].sort)
                 /\ req'[r].sort = req[r].sort]_vars

\* a list request is about to render two rows while the shared list has been
\* overwritten by another request's getBooks with different rows
C10_Witness ==
    \E r, q \in AllReqs :
        /\ r # q
        /\ req[r].pc = "awaitGetBooks" /\ req[q].pc = "awaitGetBooks"
        /\ books.owner = q
        /\ Len(req[r].rows) = 2
        /\ SeqSet(books.list) # SeqSet(req[r].rows)
        /\ req[r].sort # req[q].sort

====
